---- MODULE Spec2Model ----
(***************************************************************************)
(* A model of tbot: the legacy TBot context object (src/tbot-legacy),      *)
(* its testcase harness TBot.call, and the Channel contract exercised by   *)
(* tbot.tc.selftest.machine.                                               *)
(*                                                                         *)
(* Python objects are modelled with their identity: a TBot instance holds  *)
(* a reference to a MachineManager and a reference to a list, so that      *)
(* "self.machines = self._old_inst.machines" makes two instances share one *)
(* mapping object.                                                         *)
(***************************************************************************)
EXTENDS Naturals, Sequences, FiniteSets

\* ------------------------------------------------------------------ bounds
MaxCtx == 3
MaxCtxInsert == 2
MaxDepth == 3
MaxCalls == 3
MaxErrs == 2
MaxPending == 2
MaxTokens == 3
MaxCtxUnwind == 2
MaxLen == 3

\* ------------------------------------------------------- machines and names
None == 0

Kinds == {"MachineLabNoEnv", "MachineBoardUBoot", "MachineBoardLinux"}

common_machine_name(k) == IF k = "MachineLabNoEnv" THEN "host" ELSE "board"

unique_machine_name(k) ==
    CASE k = "MachineLabNoEnv" -> "labhost-noenv"
      [] k = "MachineBoardUBoot" -> "board-uboot"
      [] OTHER -> "board-linux"

Names == {common_machine_name(k) : k \in Kinds} \cup {unique_machine_name(k) : k \in Kinds}

CtxIds == 1..(MaxCtx + 1)
MachIds == 1..(MaxCtx + 1)
ErrIds == 1..(MaxErrs + 1)

EmptyManager == [n \in Names |-> None]

Range(s) == {s[i] : i \in 1..Len(s)}

VARIABLES
    nCtx,               \* number of TBot instances constructed so far
    layer,              \* TBot.layer of each instance
    old_inst,           \* TBot._old_inst of each instance (None: no parent)
    machines,           \* TBot.machines: which MachineManager object it refers to
    destruct_machines,  \* TBot.destruct_machines: which list object it refers to
    managers,           \* the MachineManager objects: name -> Machine (None: no key)
    lists,              \* the list objects made by TBot.__init__, one per instance
    nMach,              \* number of Machine instances set up so far
    kindOf,             \* class of each Machine instance
    creator,            \* the TBot instance whose machine()/__init__ set the Machine up
    destructCount,      \* per Machine: number of _destruct calls: 0, 1, or 2 for more than one
    reused,             \* per instance: _setup returned old_mach (new_mach is old_mach)
    stack,              \* the call() frames in progress on the root instance, outermost first
    raising,            \* the error instance now propagating (None: normal execution)
    nErr,               \* number of error instances raised so far
    errKind,            \* per error instance: "Exception" (a subclass of it) or "BaseException"
    catched,            \* per error instance: e.__dict__ holds "__tbot_exc_catched"
    passed,             \* per error instance: number of call() frames it has left
    events,             \* the tbot.log_events emitted so far
    log_layer,          \* the layer last given to tbot.log.set_layer
    LOG_DO_DOC,         \* tbot.log.LOG_DO_DOC
    nCalls,             \* number of call() invocations so far
    call_steps,         \* what the latest entry into or exit from call() did, in order
    ch_state,           \* Channel: "Open" or "Closed"
    closed_by,          \* Channel: who closed it: "owner", "peer", "nobody" yet
    close_called,       \* Channel: the owner has called close()
    peer_closed,        \* transport: the peer has shut its end down
    inbuf,              \* transport: data written by the peer, not yet received
    outbuf,             \* transport: data sent by the owner, not yet read by the peer
    result,             \* outcome of the latest Channel method call
    driver,             \* who uses the channel: "none" yet, "free" use, the "test"
    remote_close,       \* selftest_machine_channel's remote_close argument
    pc,                 \* selftest_machine_channel's position (source line)
    cmd,                \* command builder: the latest build and what became of it
    teardown,           \* the latest destruct() / scope exit: its steps, what it raised
    accessor,           \* the latest role accessor call and its outcome
    quoting             \* a quoted string and what the shell reads it as

ctxVars == <<nCtx, layer, old_inst, machines, destruct_machines, managers, lists,
             nMach, kindOf, creator, destructCount, reused>>

harnessVars == <<stack, raising, nErr, errKind, catched, passed, events, log_layer,
                 LOG_DO_DOC, nCalls,
                call_steps>>

\* Everything of the context objects but the call-depth.
scopeVars == <<nCtx, old_inst, machines, destruct_machines, managers, lists,
               nMach, kindOf, creator, destructCount, reused>>

channelVars == <<ch_state, closed_by, close_called, peer_closed, inbuf, outbuf, result>>

testVars == <<driver, remote_close, pc>>

builderVars == <<cmd, quoting>>

unwindVars == <<teardown>>

accessVars == <<accessor>>

extVars == <<builderVars, unwindVars, accessVars>>

vars == <<ctxVars, harnessVars, channelVars, testVars, extVars>>

\* The list a destruct_machines reference denotes.  Reference None is the
\* fresh empty list that destruct() binds ("self.destruct_machines = []"):
\* nothing is ever appended to such a list.
ListOf(r) == IF r = None THEN <<>> ELSE lists[r]

\* The mapping an instance sees through self.machines.
ManagerOf(c) == managers[machines[c]]

\* -------------------------------------------------------------------- Init
\* TBot(config, testcases, new=True): the root instance with its labhost.
__init__ ==
    /\ nCtx = 1
    /\ layer = [c \in CtxIds |-> 0]
    /\ old_inst = [c \in CtxIds |-> None]
    /\ machines = [c \in CtxIds |-> c]
    /\ destruct_machines = [c \in CtxIds |-> c]
    /\ managers = [c \in CtxIds |->
         IF c = 1
         THEN [EmptyManager EXCEPT ![common_machine_name("MachineLabNoEnv")] = 1,
                                   ![unique_machine_name("MachineLabNoEnv")] = 1]
         ELSE EmptyManager]
    /\ lists = [c \in CtxIds |-> IF c = 1 THEN <<1>> ELSE <<>>]
    /\ nMach = 1
    /\ kindOf = [m \in MachIds |-> "MachineLabNoEnv"]
    /\ creator = [m \in MachIds |-> IF m = 1 THEN 1 ELSE None]
    /\ destructCount = [m \in MachIds |-> 0]
    /\ reused = [c \in CtxIds |-> FALSE]
    /\ stack = <<>>
    /\ raising = None
    /\ nErr = 0
    /\ errKind = [e \in ErrIds |-> "Exception"]
    /\ catched = [e \in ErrIds |-> FALSE]
    /\ passed = [e \in ErrIds |-> 0]
    /\ events = <<>>
    /\ log_layer = 0
    /\ LOG_DO_DOC = TRUE
    /\ nCalls = 0
    /\ call_steps = <<>>
    /\ ch_state = "Open"
    /\ closed_by = "nobody"
    /\ close_called = FALSE
    /\ peer_closed = FALSE
    /\ inbuf = <<>>
    /\ outbuf = <<>>
    /\ result = [op |-> "new_channel", status |-> "ok", data |-> <<>>, open |-> TRUE]
    /\ driver = "none"
    /\ remote_close = FALSE
    /\ pc = "L139"
    /\ cmd = [host |-> "lh", tokens |-> <<>>, status |-> "none", error |-> <<"", "">>,
              resolved |-> <<>>, string |-> <<>>, sent |-> FALSE]
    /\ teardown = [ctx |-> None, body_raised |-> FALSE, propagated |-> "none",
                   steps |-> <<>>]
    /\ accessor = [ctx |-> None, raised |-> "", returned |-> None]
    /\ quoting = [class |-> "none", s |-> <<>>, token |-> <<>>, words |-> <<>>,
                  expanded |-> FALSE, complete |-> TRUE]

\* ----------------------------------------------------------------- _setup
\* Machine._setup(new_inst, old_mach): either the previous machine of the
\* role, unchanged, or the newly set up instance.
_setup(old_mach, reuse) == IF reuse /\ old_mach # None THEN old_mach ELSE nMach + 1

\* -------------------------------------------------------- TBot.machine(mach)
\* (mutant) new_mach is appended without the "is not old_mach" test.
NewDestructListAlways(new_mach, old_mach) == <<new_mach>>

\* The destruct-list of the new instance: new_mach is appended unless it is
\* the machine that was already there.
NewDestructList(new_mach, old_mach) ==
    IF new_mach # old_mach THEN <<new_mach>> ELSE <<>>

\* (mutant) new_mach is stored under the common name only.
NewManagerCommonOnly(p, k, new_mach) ==
    [ManagerOf(p) EXCEPT ![common_machine_name(k)] = new_mach]

\* The MachineManager of the new instance: a copy of the caller's entries,
\* then new_mach under the descriptor's common and unique name.
NewManager(p, k, new_mach) ==
    [ManagerOf(p) EXCEPT ![common_machine_name(k)] = new_mach,
                         ![unique_machine_name(k)] = new_mach]

\* (mutant) the new instance is given the caller's MachineManager itself
\* instead of a copy of its entries.
machineShared(p, k, reuse) ==
    LET c == nCtx + 1
        old_mach == ManagerOf(p)[common_machine_name(k)]
        new_mach == _setup(old_mach, reuse)
        fresh == new_mach = nMach + 1
    IN  /\ p \in 1..nCtx
        /\ reuse => old_mach # None
        /\ nCtx' = c
        /\ layer' = [layer EXCEPT ![c] = layer[p]]
        /\ machines' = [machines EXCEPT ![c] = machines[p]]
        /\ destruct_machines' = [destruct_machines EXCEPT ![c] = c]
        /\ managers' = [managers EXCEPT ![machines[p]] = NewManager(p, k, new_mach)]
        /\ lists' = [lists EXCEPT ![c] = NewDestructList(new_mach, old_mach)]
        /\ old_inst' = [old_inst EXCEPT ![c] = p]
        /\ reused' = [reused EXCEPT ![c] = (new_mach = old_mach)]
        /\ nMach' = IF fresh THEN nMach + 1 ELSE nMach
        /\ kindOf' = IF fresh THEN [kindOf EXCEPT ![new_mach] = k] ELSE kindOf
        /\ creator' = IF fresh THEN [creator EXCEPT ![new_mach] = c] ELSE creator
        /\ UNCHANGED <<destructCount, harnessVars, channelVars, testVars, extVars>>

machine(p, k, reuse) ==
    LET c == nCtx + 1
        old_mach == ManagerOf(p)[common_machine_name(k)]
        new_mach == _setup(old_mach, reuse)
        fresh == new_mach = nMach + 1
    IN  /\ p \in 1..nCtx
        /\ reuse => old_mach # None
        /\ nCtx' = c
        /\ layer' = [layer EXCEPT ![c] = layer[p]]
        /\ machines' = [machines EXCEPT ![c] = c]
        /\ destruct_machines' = [destruct_machines EXCEPT ![c] = c]
        /\ managers' = [managers EXCEPT ![c] = NewManager(p, k, new_mach)]
        /\ lists' = [lists EXCEPT ![c] = NewDestructList(new_mach, old_mach)]
        /\ old_inst' = [old_inst EXCEPT ![c] = p]
        /\ reused' = [reused EXCEPT ![c] = (new_mach = old_mach)]
        /\ nMach' = IF fresh THEN nMach + 1 ELSE nMach
        /\ kindOf' = IF fresh THEN [kindOf EXCEPT ![new_mach] = k] ELSE kindOf
        /\ creator' = IF fresh THEN [creator EXCEPT ![new_mach] = c] ELSE creator
        /\ UNCHANGED <<destructCount, harnessVars, channelVars, testVars, extVars>>

\* ----------------------------------------------------------- TBot.destruct()
\* One destruct() pass of instance c: every machine of the list c refers to
\* gets _destruct(c).  The number of _destruct calls each machine has had
\* after the pass.
DestructCounts(c) ==
    [m \in MachIds |->
        IF m \in Range(ListOf(destruct_machines[c]))
        THEN (IF destructCount[m] = 0 THEN 1 ELSE 2)
        ELSE destructCount[m]]

\* tbot.log.flush_log() comes first; it touches the log only.
destruct(c) ==
    /\ c \in 1..nCtx
    /\ destructCount' = DestructCounts(c)
    /\ destruct_machines' = [destruct_machines EXCEPT ![c] = None]
    /\ UNCHANGED <<nCtx, layer, old_inst, machines, managers, lists, nMach, kindOf,
                   creator, reused, harnessVars, channelVars, testVars, extVars>>

\* ------------------------------------------------------------ TBot.__exit__
\* (mutant) __exit__ leaves self.machines as it is.
ExitMachinesKept(c) == machines[c]

\* What self.machines / self.destruct_machines refer to after __exit__: the
\* parent's objects when there is a recorded parent.
ExitMachines(c) ==
    IF old_inst[c] # None THEN machines[old_inst[c]] ELSE machines[c]

ExitDestructList(c) ==
    IF old_inst[c] # None THEN destruct_machines[old_inst[c]] ELSE None

__exit__(c) ==
    /\ c \in 1..nCtx
    /\ destructCount' = DestructCounts(c)
    /\ machines' = [machines EXCEPT ![c] = ExitMachines(c)]
    /\ destruct_machines' = [destruct_machines EXCEPT ![c] = ExitDestructList(c)]
    /\ UNCHANGED <<nCtx, layer, old_inst, managers, lists, nMach, kindOf, creator, reused,
                   harnessVars, channelVars, testVars, extVars>>

\* ------------------------------------------- MachineManager.__setitem__
\* "tb.machines[name] = mach" by a testcase holding instance c: a machine
\* that has been set up is made the current machine of its role.
setitem(c, m) ==
    LET name == common_machine_name(kindOf[m])
    IN  /\ c \in 1..nCtx
        /\ m \in 1..nMach
        /\ ManagerOf(c)[name] # m
        /\ managers' = [managers EXCEPT ![machines[c]][name] = m]
        /\ UNCHANGED <<nCtx, layer, old_inst, machines, destruct_machines, lists, nMach,
                       kindOf, creator, destructCount, reused, harnessVars,
                       channelVars, testVars, extVars>>

\* The context lifecycle: scopes are entered, destructed and exited in any
\* order, any number of times.
Next ==
    \/ \E p \in CtxIds, k \in Kinds, reuse \in BOOLEAN :
          nCtx < MaxCtx /\ machine(p, k, reuse)
    \/ \E c \in CtxIds : destruct(c)
    \/ \E c \in CtxIds : __exit__(c)

Spec == __init__ /\ [][Next]_vars

\* The same with testcases that also write entries of the mapping they hold.
NextInsert ==
    \/ \E p \in CtxIds, k \in Kinds, reuse \in BOOLEAN :
          nCtx < MaxCtxInsert /\ machine(p, k, reuse)
    \/ \E c \in CtxIds : destruct(c)
    \/ \E c \in CtxIds : __exit__(c)
    \/ \E c \in CtxIds, m \in MachIds : setitem(c, m)

SpecInsert == __init__ /\ [][NextInsert]_vars

\* ============================================================ TBot.boardshell
\* The role accessor of the board machine, on mappings a testcase may also
\* have written under any name.

\* isinstance(boardmachine, tbot.machine.MachineBoard)
MachineBoard == {"MachineBoardUBoot", "MachineBoardLinux"}

\* "tb.machines[name] = mach" by a testcase holding instance c.
setitem_name(c, name, m) ==
    /\ c \in 1..nCtx
    /\ m \in 1..nMach
    /\ ManagerOf(c)[name] # m
    /\ managers' = [managers EXCEPT ![machines[c]][name] = m]
    /\ UNCHANGED <<nCtx, layer, old_inst, machines, destruct_machines, lists, nMach,
                   kindOf, creator, destructCount, reused, harnessVars,
                   channelVars, testVars, extVars>>

\* self.machines[name]: the mapping raises KeyError for a name it does not
\* hold.
getitem(c, name) ==
    IF ManagerOf(c)[name] = None
    THEN [ctx |-> c, raised |-> "KeyError", returned |-> None]
    ELSE [ctx |-> c, raised |-> "", returned |-> ManagerOf(c)[name]]

\* TBot.boardshell, lines 84-90
boardshell(c) ==
    /\ c \in 1..nCtx
    /\ accessor' =
          LET boardmachine == getitem(c, "board")
          IN  IF boardmachine.raised # "" THEN boardmachine
              ELSE IF kindOf[boardmachine.returned] \notin MachineBoard
              THEN [ctx |-> c, raised |-> "InvalidUsageException", returned |-> None]
              ELSE boardmachine
    /\ UNCHANGED <<ctxVars, harnessVars, channelVars, testVars, builderVars, unwindVars>>

NextAccessor ==
    \/ \E p \in CtxIds, k \in Kinds, reuse \in BOOLEAN :
          nCtx < MaxCtxInsert /\ machine(p, k, reuse)
    \/ \E c \in CtxIds, name \in {"host", "board"}, m \in MachIds : setitem_name(c, name, m)
    \/ \E c \in CtxIds : boardshell(c)

SpecAccessor == __init__ /\ [][NextAccessor]_vars

\* ================================================== teardown that can fail
\* destruct() and the end of a "with" block, with what the teardown does step
\* by step and with a Machine._destruct that may raise.  fail_at is the
\* position in the destruct-list of the machine whose _destruct raises, 0 when
\* none does.

\* The machines _destruct is invoked on: all of the list, or those up to and
\* including the one that raises.
Invoked(c, fail_at) ==
    LET list == ListOf(destruct_machines[c])
    IN  IF fail_at = 0 THEN list ELSE SubSeq(list, 1, fail_at)

DestructCountsOf(ms) ==
    [m \in MachIds |->
        IF m \in Range(ms) THEN (IF destructCount[m] = 0 THEN 1 ELSE 2)
        ELSE destructCount[m]]

\* (mutant) the steps of destruct() with the log flushed last.
StepsFlushLast(c, fail_at) ==
    LET ms == Invoked(c, fail_at)
    IN  [i \in 1..Len(ms) |-> <<"_destruct", ms[i]>>]
        \o (IF fail_at = 0 THEN <<<<"destruct_machines = []", None>>>>
            ELSE <<<<"raise", ms[fail_at]>>>>)
        \o <<<<"flush_log", None>>>>

\* lines 227-233 in order.
Steps(c, fail_at) ==
    LET ms == Invoked(c, fail_at)
    IN  <<<<"flush_log", None>>>>
        \o [i \in 1..Len(ms) |-> <<"_destruct", ms[i]>>]
        \o (IF fail_at = 0 THEN <<<<"destruct_machines = []", None>>>>
            ELSE <<<<"raise", ms[fail_at]>>>>)

\* tb.destruct()
destruct_call(c, fail_at) ==
    /\ c \in 1..nCtx
    /\ fail_at \in 0..Len(ListOf(destruct_machines[c]))
    /\ destructCount' = DestructCountsOf(Invoked(c, fail_at))
    /\ destruct_machines' = IF fail_at = 0
                            THEN [destruct_machines EXCEPT ![c] = None]
                            ELSE destruct_machines
    /\ teardown' = [ctx |-> c, body_raised |-> FALSE,
                    propagated |-> IF fail_at = 0 THEN "none" ELSE "_destruct",
                    steps |-> Steps(c, fail_at)]
    /\ UNCHANGED <<nCtx, layer, old_inst, machines, managers, lists, nMach, kindOf,
                   creator, reused, harnessVars, channelVars, testVars, builderVars,
                   accessVars>>

\* The end of "with c: body": the body has returned or raised, c.__exit__
\* runs, and what leaves the with statement is the exception __exit__ raises,
\* else the body's (__exit__ returns None).
with_exit(c, body_raised, fail_at) ==
    /\ c \in 1..nCtx
    /\ fail_at \in 0..Len(ListOf(destruct_machines[c]))
    /\ destructCount' = DestructCountsOf(Invoked(c, fail_at))
    /\ machines' = IF fail_at = 0 THEN [machines EXCEPT ![c] = ExitMachines(c)]
                   ELSE machines
    /\ destruct_machines' = IF fail_at = 0
                            THEN [destruct_machines EXCEPT ![c] = ExitDestructList(c)]
                            ELSE destruct_machines
    /\ teardown' = [ctx |-> c, body_raised |-> body_raised,
                    propagated |-> IF fail_at # 0 THEN "_destruct"
                                   ELSE IF body_raised THEN "body" ELSE "none",
                    steps |-> Steps(c, fail_at)]
    /\ UNCHANGED <<nCtx, layer, old_inst, managers, lists, nMach, kindOf, creator, reused,
                   harnessVars, channelVars, testVars, builderVars, accessVars>>

NextUnwind ==
    \/ \E p \in CtxIds, k \in Kinds, reuse \in BOOLEAN :
          nCtx < MaxCtxUnwind /\ machine(p, k, reuse)
    \/ \E c \in CtxIds, fail_at \in 0..MaxCtxUnwind : destruct_call(c, fail_at)
    \/ \E c \in CtxIds, body_raised \in BOOLEAN, fail_at \in 0..MaxCtxUnwind :
          with_exit(c, body_raised, fail_at)

SpecUnwind == __init__ /\ [][NextUnwind]_vars

\* ================================================================ TBot.call
\* call() runs on the root instance.  A call is in progress from its
\* prologue to the moment its frame is left; the target's body may call
\* again, return, raise, or catch what a nested call raised.

\* The testcases registered by name, and the targets a call is made with: a
\* registered name, a name that is not registered, a callable.
testcases == {"selftest"}
Targets == {"selftest", "not_registered", "@selftest_fn"}

\* Error classes: what "except Exception" catches and what it does not
\* (KeyboardInterrupt, SystemExit, GeneratorExit).
ErrKinds == {"Exception", "BaseException"}

IsName(tcs) == tcs \in {"selftest", "not_registered"}

Top == stack[Len(stack)]

Pop == SubSeq(stack, 1, Len(stack) - 1)

testcase_begin(name) == <<"testcase_begin", name, None, None>>
testcase_end(name, success, fail_ok) == <<"testcase_end", name, success, fail_ok>>
exception(e) == <<"exception", e, None, None>>

\* lines 130-142: the prologue, and the lookup of a target given by name,
\* which raises KeyError inside the try block when the name is not registered.
call_begin(tcs, fail_ok, doc) ==
    LET unknown == IsName(tcs) /\ tcs \notin testcases
    IN  /\ raising = None
        /\ events' = Append(events, testcase_begin(tcs))
        /\ layer' = [layer EXCEPT ![1] = @ + 1]
        /\ log_layer' = layer[1] + 1
        /\ stack' = Append(stack, [name |-> tcs, fail_ok |-> fail_ok,
                                   previous_doc |-> LOG_DO_DOC,
                                   entry_layer |-> layer[1]])
        /\ LOG_DO_DOC' = (LOG_DO_DOC /\ doc)
        /\ nCalls' = nCalls + 1
        /\ call_steps' = <<"testcase_begin", "layer += 1", "set_layer", "LOG_DO_DOC">>
                          \o (IF unknown THEN <<"KeyError">> ELSE <<"testcase">>)
        /\ IF unknown
           THEN /\ nErr' = nErr + 1
                /\ errKind' = [errKind EXCEPT ![nErr + 1] = "Exception"]
                /\ raising' = nErr + 1
           ELSE UNCHANGED <<nErr, errKind, raising>>
        /\ UNCHANGED <<catched, passed, scopeVars, channelVars, testVars, extVars>>

\* The layer after the epilogue of a frame ("self.layer -= 1").
LayerLeft == [layer EXCEPT ![1] = @ - 1]

\* lines 157-162: the target returned.
call_return ==
    /\ stack # <<>>
    /\ raising = None
    /\ layer' = LayerLeft
    /\ events' = Append(events, testcase_end(Top.name, TRUE, None))
    /\ log_layer' = layer'[1]
    /\ LOG_DO_DOC' = Top.previous_doc
    /\ stack' = Pop
    /\ call_steps' = <<"layer -= 1", "testcase_end", "set_layer", "LOG_DO_DOC", "return">>
    /\ UNCHANGED <<raising, nErr, errKind, catched, passed, nCalls, scopeVars, channelVars, testVars, extVars>>

\* lines 146-149: the exception event of an error that is not yet marked.
ExceptionEvents(e) == IF ~catched[e] THEN <<exception(e)>> ELSE <<>>

\* lines 143-155: the target raised something "except Exception" catches.
call_except ==
    /\ stack # <<>>
    /\ raising # None
    /\ errKind[raising] = "Exception"
    /\ catched' = [catched EXCEPT ![raising] = TRUE]
    /\ layer' = LayerLeft
    /\ events' = events \o ExceptionEvents(raising)
                        \o <<testcase_end(Top.name, FALSE, Top.fail_ok)>>
    /\ log_layer' = layer'[1]
    /\ LOG_DO_DOC' = Top.previous_doc
    /\ stack' = Pop
    /\ passed' = [passed EXCEPT ![raising] = @ + 1]
    /\ call_steps' = (IF ~catched[raising] THEN <<"exception">> ELSE <<>>)
                      \o <<"layer -= 1", "testcase_end", "set_layer", "LOG_DO_DOC", "raise">>
    /\ UNCHANGED <<raising, nErr, errKind, nCalls, scopeVars, channelVars, testVars, extVars>>

\* The target raised something "except Exception" does not catch: the frame
\* is left with neither the except block nor lines 157-162 run.
call_unwind ==
    /\ stack # <<>>
    /\ raising # None
    /\ errKind[raising] = "BaseException"
    /\ stack' = Pop
    /\ passed' = [passed EXCEPT ![raising] = @ + 1]
    /\ call_steps' = <<>>
    /\ UNCHANGED <<layer, raising, nErr, errKind, catched, events, log_layer, LOG_DO_DOC,
                   nCalls, scopeVars, channelVars, testVars, extVars>>

\* The body of the running testcase raises a new error instance.
testcase_raise(kind) ==
    /\ stack # <<>>
    /\ raising = None
    /\ nErr' = nErr + 1
    /\ errKind' = [errKind EXCEPT ![nErr + 1] = kind]
    /\ raising' = nErr + 1
    /\ UNCHANGED <<layer, stack, catched, passed, events, log_layer, LOG_DO_DOC, nCalls, call_steps,
                   scopeVars, channelVars, testVars, extVars>>

\* The code the error has reached (a testcase body, or the caller of the
\* outermost call) catches it.
testcase_catch ==
    /\ raising # None
    /\ passed[raising] > 0
    /\ raising' = None
    /\ UNCHANGED <<layer, stack, nErr, errKind, catched, passed, events, log_layer, call_steps,
                   LOG_DO_DOC, nCalls, scopeVars, channelVars, testVars, extVars>>

\* A testcase body raises an error instance it caught before ("raise e").
testcase_reraise(e) ==
    /\ stack # <<>>
    /\ raising = None
    /\ e \in 1..nErr
    /\ passed[e] > 0
    /\ raising' = e
    /\ UNCHANGED <<layer, stack, nErr, errKind, catched, passed, events, log_layer, call_steps,
                   LOG_DO_DOC, nCalls, scopeVars, channelVars, testVars, extVars>>

NextCall ==
    \/ \E tcs \in Targets, fail_ok \in BOOLEAN, doc \in BOOLEAN :
          /\ nCalls < MaxCalls
          /\ Len(stack) < MaxDepth
          /\ IsName(tcs) /\ tcs \notin testcases => nErr < MaxErrs
          /\ call_begin(tcs, fail_ok, doc)
    \/ call_return
    \/ call_except
    \/ call_unwind
    \/ \E kind \in ErrKinds : nErr < MaxErrs /\ testcase_raise(kind)
    \/ testcase_catch
    \/ \E e \in ErrIds : testcase_reraise(e)

SpecCall == __init__ /\ [][NextCall]_vars

\* ========================================================== tbot.testcase
\* The decorator of the new-style testcases: wrapped(*args, **kwargs) emits
\* the begin-event, runs the function, and emits the end-event on both ways
\* out.  Its events carry no name on the end-event and it keeps no depth.

\* Decorated functions (tc.__name__).
Wrapped == {"selftest", "selftest_uname"}

\* log.testcase_end(success): an end-event without a name.
log_testcase_end(success) == <<"testcase_end", "", success, None>>

\* lines 12-14 up to the call of tc.
wrapped_begin(tc) ==
    /\ raising = None
    /\ events' = Append(events, testcase_begin(tc))
    /\ stack' = Append(stack, [name |-> tc])
    /\ nCalls' = nCalls + 1
    /\ UNCHANGED <<layer, raising, nErr, errKind, catched, passed, log_layer, LOG_DO_DOC,
                   call_steps, scopeVars, channelVars, testVars, extVars>>

\* lines 18-19: tc returned.
wrapped_return ==
    /\ stack # <<>>
    /\ raising = None
    /\ events' = Append(events, log_testcase_end(TRUE))
    /\ stack' = Pop
    /\ UNCHANGED <<layer, raising, nErr, errKind, catched, passed, log_layer, LOG_DO_DOC,
                   nCalls, call_steps, scopeVars, channelVars, testVars, extVars>>

\* lines 15-17: tc raised; the bare "except:" takes every error class.
wrapped_except ==
    /\ stack # <<>>
    /\ raising # None
    /\ events' = Append(events, log_testcase_end(FALSE))
    /\ stack' = Pop
    /\ passed' = [passed EXCEPT ![raising] = @ + 1]
    /\ UNCHANGED <<layer, raising, nErr, errKind, catched, log_layer, LOG_DO_DOC,
                   nCalls, call_steps, scopeVars, channelVars, testVars, extVars>>

NextTestcase ==
    \/ \E tc \in Wrapped : nCalls < MaxCalls /\ Len(stack) < MaxDepth /\ wrapped_begin(tc)
    \/ wrapped_return
    \/ wrapped_except
    \/ \E kind \in ErrKinds : nErr < MaxErrs /\ testcase_raise(kind)
    \/ testcase_catch
    \/ \E e \in ErrIds : testcase_reraise(e)

SpecTestcase == __init__ /\ [][NextTestcase]_vars

\* ================================================================= Channel
\* The Channel contract (a byte stream to a shell process) and the peer at
\* the other end of the transport.

Commands == {"echo Hello World", "exit\n", "\n"}

Ok(op, data) == [op |-> op, status |-> "ok", data |-> data, open |-> TRUE]
Failed(op, why) == [op |-> op, status |-> why, data |-> <<>>, open |-> TRUE]

\* Channel.send(data).  On an open channel whose peer is gone the write is
\* either accepted by the transport or reports the hangup.
send(d, hangup_seen) ==
    /\ IF ch_state = "Closed"
       THEN /\ result' = Failed("send", "ChannelClosed")
            /\ UNCHANGED <<ch_state, closed_by, outbuf>>
       ELSE IF peer_closed /\ hangup_seen
       THEN /\ result' = Failed("send", "ChannelClosed")
            /\ ch_state' = "Closed"
            /\ closed_by' = "peer"
            /\ UNCHANGED outbuf
       ELSE /\ result' = Ok("send", <<>>)
            /\ outbuf' = IF peer_closed THEN outbuf ELSE Append(outbuf, d)
            /\ UNCHANGED <<ch_state, closed_by>>
    /\ UNCHANGED <<close_called, peer_closed, inbuf>>

\* (mutant) recv without the test of the Closed state.
RecvOutcomeUnchecked ==
    IF inbuf # <<>> THEN "data"
    ELSE IF peer_closed THEN "peer_close"
    ELSE "timeout"

\* (mutant) recv that takes the peer's close for a timeout.
RecvOutcomePeerCloseMissed ==
    IF ch_state = "Closed" THEN "closed"
    ELSE IF inbuf # <<>> THEN "data"
    ELSE "timeout"

\* What a recv(timeout) call meets: a channel already Closed, pending data,
\* the peer's close (a zero-length read or a hangup), or nothing in time.
RecvOutcome ==
    IF ch_state = "Closed" THEN "closed"
    ELSE IF inbuf # <<>> THEN "data"
    ELSE IF peer_closed THEN "peer_close"
    ELSE "timeout"

\* Channel.recv(timeout).
recv ==
    /\ CASE RecvOutcome = "closed" ->
              /\ result' = Failed("recv", "ChannelClosed")
              /\ UNCHANGED <<ch_state, closed_by, inbuf>>
         [] RecvOutcome = "data" ->
              /\ result' = Ok("recv", inbuf)
              /\ inbuf' = <<>>
              /\ UNCHANGED <<ch_state, closed_by>>
         [] RecvOutcome = "peer_close" ->
              /\ result' = Failed("recv", "ChannelClosed")
              /\ ch_state' = "Closed"
              /\ closed_by' = "peer"
              /\ UNCHANGED inbuf
         [] OTHER ->
              /\ result' = Failed("recv", "Timeout")
              /\ UNCHANGED <<ch_state, closed_by, inbuf>>
    /\ UNCHANGED <<close_called, peer_closed, outbuf>>

\* (mutant) close that reports an already Closed channel as an error.
closeStrict ==
    /\ ch_state' = "Closed"
    /\ closed_by' = IF ch_state = "Open" THEN "owner" ELSE closed_by
    /\ close_called' = TRUE
    /\ result' = IF ch_state = "Open" THEN Ok("close", <<>>)
                 ELSE Failed("close", "ChannelClosed")
    /\ UNCHANGED <<peer_closed, inbuf, outbuf>>

\* Channel.close().
close ==
    /\ ch_state' = "Closed"
    /\ closed_by' = IF ch_state = "Open" THEN "owner" ELSE closed_by
    /\ close_called' = TRUE
    /\ result' = Ok("close", <<>>)
    /\ UNCHANGED <<peer_closed, inbuf, outbuf>>

\* Channel.isopen().
isopen ==
    /\ result' = [op |-> "isopen", status |-> "ok", data |-> <<>>,
                  open |-> (ch_state = "Open")]
    /\ UNCHANGED <<ch_state, closed_by, close_called, peer_closed, inbuf, outbuf>>

\* The shell at the other end reads one command: echo prints its arguments,
\* exit prints "exit" and ends the shell, an empty line prints nothing.
shell ==
    /\ ~peer_closed
    /\ outbuf # <<>>
    /\ outbuf' = Tail(outbuf)
    /\ inbuf' = CASE Head(outbuf) = "echo Hello World" -> Append(inbuf, "Hello World\n")
                  [] Head(outbuf) = "exit\n" -> Append(inbuf, "exit\n")
                  [] OTHER -> inbuf
    /\ peer_closed' = (Head(outbuf) = "exit\n")
    /\ UNCHANGED <<ch_state, closed_by, close_called, result>>

\* The transport drops: the peer's end is shut down without a command.
hangup ==
    /\ ~peer_closed
    /\ peer_closed' = TRUE
    /\ UNCHANGED <<ch_state, closed_by, close_called, inbuf, outbuf, result>>

\* lh.new_channel(), handed to selftest_machine_channel or used freely.
new_channel(d, rc) ==
    /\ driver = "none"
    /\ driver' = d
    /\ remote_close' = rc
    /\ UNCHANGED <<pc, channelVars>>

\* ------------------------------------------------ selftest_machine_channel
\* One step of the testcase: the Channel call of the source line at pc, and
\* the line control moves to.  A failed assert or an exception that is not
\* caught ends the testcase at "failed".
Goto(ok, next) == pc' = IF ok THEN next ELSE "failed"

selftest_machine_channel ==
    /\ driver = "test"
    /\ UNCHANGED <<driver, remote_close>>
    /\ CASE pc = "L139" ->          \* raw_command: the command is sent
              /\ send("echo Hello World", FALSE)
              /\ Goto(result'.status = "ok", "L139_out")
         [] pc = "L139_out" ->      \* raw_command: its output; assert (140)
              /\ outbuf = <<>>
              /\ recv
              /\ Goto(result'.status = "ok" /\ result'.data = <<"Hello World\n">>, "L142")
         [] pc = "L142" ->          \* assert ch.isopen(); if remote_close
              /\ isopen
              /\ Goto(result'.open, IF remote_close THEN "L145" ELSE "L156")
         [] pc = "L145" ->          \* ch.send("exit\n")
              /\ send("exit\n", FALSE)
              /\ Goto(result'.status = "ok", "L147")
         [] pc = "L147" ->          \* after the sleep: ch.recv(timeout=1)
              /\ outbuf = <<>>
              /\ recv
              /\ Goto(result'.status = "ok", "L151")
         [] pc = "L151" ->          \* ch.recv raises ChannelClosedException; assert (154)
              /\ recv
              /\ Goto(result'.status = "ChannelClosed", "L158")
         [] pc = "L156" ->          \* ch.close()
              /\ close
              /\ Goto(TRUE, "L158")
         [] pc = "L158" ->          \* assert not ch.isopen()
              /\ isopen
              /\ Goto(~result'.open, "L162")
         [] pc = "L162" ->          \* ch.send raises ChannelClosedException; assert (165)
              /\ send("\n", FALSE)
              /\ Goto(result'.status = "ChannelClosed", "L169")
         [] pc = "L169" ->          \* ch.recv raises ChannelClosedException; assert (172)
              /\ recv
              /\ Goto(result'.status = "ChannelClosed", "done")
         [] OTHER -> FALSE

NextChannel ==
    \/ /\ \E d \in {"free", "test"}, rc \in BOOLEAN : new_channel(d, rc)
       /\ UNCHANGED <<extVars, ctxVars, harnessVars>>
    \/ /\ selftest_machine_channel
       /\ UNCHANGED <<extVars, ctxVars, harnessVars>>
    \/ /\ driver = "free"
       /\ \E d \in Commands, hangup_seen \in BOOLEAN :
             Len(outbuf) < MaxPending /\ send(d, hangup_seen)
       /\ UNCHANGED <<extVars, ctxVars, harnessVars, testVars>>
    \/ /\ driver = "free" /\ recv
       /\ UNCHANGED <<extVars, ctxVars, harnessVars, testVars>>
    \/ /\ driver = "free" /\ close
       /\ UNCHANGED <<extVars, ctxVars, harnessVars, testVars>>
    \/ /\ driver = "free" /\ isopen
       /\ UNCHANGED <<extVars, ctxVars, harnessVars, testVars>>
    \/ /\ driver # "none" /\ Len(inbuf) < MaxPending /\ shell
       /\ UNCHANGED <<extVars, ctxVars, harnessVars, testVars>>
    \/ /\ driver = "free" /\ hangup
       /\ UNCHANGED <<extVars, ctxVars, harnessVars, testVars>>

SpecChannel == __init__ /\ [][NextChannel]_vars

\* ========================================================= command builder
\* Strings are sequences of one-character strings.  A machine is named by
\* its identity; a path carries the machine it was obtained from.

Hosts == {"lh", "ssh"}

Path(h, local) == [host |-> h, local |-> local]

\* Path._local_str(): the host-local rendering of the path.
_local_str(file) == file.local

\* ---- shlex.quote
\* The characters shlex.quote leaves alone: [\w@%+=:,./-].
SafeChars == {"a", "f", "x", "_", "@", "%", "+", "=", ":", ",", ".", "/", "-"}

RECURSIVE ReplaceQuotes(_)
\* s.replace("'", "'\"'\"'")
ReplaceQuotes(s) ==
    IF s = <<>> THEN <<>>
    ELSE (IF Head(s) = "'" THEN <<"'", "\"", "'", "\"", "'">> ELSE <<Head(s)>>)
         \o ReplaceQuotes(Tail(s))

\* (mutant) quoting that wraps in single quotes without escaping the single
\* quotes of the string.
quoteUnescaped(s) ==
    IF s = <<>> THEN <<"'", "'">>
    ELSE IF \A i \in 1..Len(s) : s[i] \in SafeChars THEN s
    ELSE <<"'">> \o s \o <<"'">>

\* shlex.quote(s)
quote(s) ==
    IF s = <<>> THEN <<"'", "'">>
    ELSE IF \A i \in 1..Len(s) : s[i] \in SafeChars THEN s
    ELSE <<"'">> \o ReplaceQuotes(s) \o <<"'">>

\* ---- tokens
Raw(string) == [class |-> "Raw", string |-> string, file |-> Path("lh", <<>>)]
_Static(string) == [class |-> "_Static", string |-> string, file |-> Path("lh", <<>>)]
RedirStdout(file) == [class |-> "RedirStdout", string |-> <<>>, file |-> file]
RedirStderr(file) == [class |-> "RedirStderr", string |-> <<>>, file |-> file]
Arg(string) == [class |-> "Arg", string |-> string, file |-> Path("lh", <<>>)]

AndThen == _Static(<<"&", "&">>)
Background == _Static(<<"&">>)
OrElse == _Static(<<"|", "|">>)
Pipe == _Static(<<"|">>)
Then == _Static(<<";">>)

\* What _to_string gives: a string, or an exception (class, message).
Return(string) == [raised |-> FALSE, error |-> <<"", "">>, string |-> string]
Raise(class, message) == [raised |-> TRUE, error |-> <<class, message>>, string |-> <<>>]

\* The exception of special.py line 57, the code's form of the
\* CrossHostRedirection condition.
CrossHostRedirection == <<"Exception", "wrong host">>

\* (mutant) Raw._to_string that shell-quotes its string.
Raw_to_stringQuoted(tok, h) == Return(quote(tok.string))

\* Raw._to_string
Raw_to_string(tok, h) == Return(tok.string)

_redir_token(tok) == IF tok.class = "RedirStdout" THEN <<">">> ELSE <<"2", ">">>

\* (mutant) _to_string of a redirection without the test of the host.
_Stdio_to_stringAnyHost(tok, h) ==
    Return(_redir_token(tok) \o quote(_local_str(tok.file)))

_Stdio_to_string(tok, h) ==
    IF tok.file.host # h
    THEN Raise(CrossHostRedirection[1], CrossHostRedirection[2])
    ELSE Return(_redir_token(tok) \o quote(_local_str(tok.file)))

_Static_to_string(tok, h) == Return(tok.string)

\* A plain string argument is shell-quoted.
Arg_to_string(tok, h) == Return(quote(tok.string))

_to_string(tok, h) ==
    CASE tok.class = "Raw" -> Raw_to_string(tok, h)
      [] tok.class \in {"RedirStdout", "RedirStderr"} -> _Stdio_to_string(tok, h)
      [] tok.class = "_Static" -> _Static_to_string(tok, h)
      [] OTHER -> Arg_to_string(tok, h)

\* ---- the builder
RECURSIVE Join(_)
\* " ".join(substrings)
Join(strs) ==
    IF strs = <<>> THEN <<>>
    ELSE IF Len(strs) = 1 THEN strs[1]
    ELSE strs[1] \o <<" ">> \o Join(Tail(strs))

\* The tokens are resolved in the order given; the first exception ends the
\* build.
Resolved(tokens, h) == [i \in 1..Len(tokens) |-> _to_string(tokens[i], h)]

build_command(h, tokens) ==
    LET r == Resolved(tokens, h)
        failed == {i \in 1..Len(tokens) : r[i].raised}
        first == CHOOSE i \in failed : \A j \in failed : i <= j
    IN  /\ cmd.status = "none"
        /\ cmd' = IF failed # {}
                  THEN [host |-> h, tokens |-> tokens, status |-> "raised",
                        error |-> r[first].error, resolved |-> <<>>, string |-> <<>>,
                        sent |-> FALSE]
                  ELSE [host |-> h, tokens |-> tokens, status |-> "built",
                        error |-> <<"", "">>,
                        resolved |-> [i \in 1..Len(tokens) |-> r[i].string],
                        string |-> Join([i \in 1..Len(tokens) |-> r[i].string]),
                        sent |-> FALSE]
        /\ UNCHANGED quoting

\* The shell driver sends the built command line on the machine's channel.
send_command ==
    /\ cmd.status = "built"
    /\ ~cmd.sent
    /\ cmd' = [cmd EXCEPT !.sent = TRUE]
    /\ UNCHANGED quoting

\* The tokens commands are built from.
Files == {Path(h, local) : h \in Hosts, local \in {<<"f">>, <<"f", " ", "'">>}}

Tokens ==
    {Raw(<<"x">>), Raw(<<"'", " ">>), Arg(<<"x">>), Arg(<<"$", "x">>),
     AndThen, Background, OrElse, Pipe, Then}
    \cup {RedirStdout(f) : f \in Files} \cup {RedirStderr(f) : f \in Files}

RECURSIVE TokenSeqs(_)
TokenSeqs(n) ==
    IF n = 0 THEN {<<>>}
    ELSE TokenSeqs(n - 1)
         \cup {Append(ts, t) : ts \in {x \in TokenSeqs(n - 1) : Len(x) = n - 1}, t \in Tokens}

NextBuild ==
    \/ /\ cmd.status = "none"
       /\ \E h \in Hosts, tokens \in TokenSeqs(MaxTokens) : build_command(h, tokens)
       /\ UNCHANGED <<ctxVars, harnessVars, channelVars, testVars, unwindVars, accessVars>>
    \/ /\ send_command
       /\ UNCHANGED <<ctxVars, harnessVars, channelVars, testVars, unwindVars, accessVars>>

SpecBuild == __init__ /\ [][NextBuild]_vars

\* ------------------------------------------------ the shell reading a word
\* How a POSIX shell reads a piece of a command line: words are split at
\* unquoted blanks, quotes and backslashes are removed, and an unquoted or
\* double-quoted "$" or BackQuote starts an expansion.

\* The character U+0060, which a TLA+ string cannot hold.
BackQuote == "backquote"

Chars == {"a", " ", "'", "\"", "$", BackQuote, "\n", "\\"}

Strings(n) == UNION {[1..k -> Chars] : k \in 0..n}

RECURSIVE ShellRead(_, _, _, _, _, _, _)
ShellRead(t, i, mode, word, inword, words, expanded) ==
    IF i > Len(t)
    THEN [words |-> IF inword THEN Append(words, word) ELSE words,
          expanded |-> expanded, complete |-> (mode = "plain")]
    ELSE LET c == t[i]
             next == IF i < Len(t) THEN t[i + 1] ELSE ""
         IN  CASE mode = "single" ->
                    IF c = "'"
                    THEN ShellRead(t, i + 1, "plain", word, TRUE, words, expanded)
                    ELSE ShellRead(t, i + 1, mode, Append(word, c), TRUE, words, expanded)
               [] mode = "double" ->
                    IF c = "\""
                    THEN ShellRead(t, i + 1, "plain", word, TRUE, words, expanded)
                    ELSE IF c = "\\" /\ next \in {"$", BackQuote, "\"", "\\"}
                    THEN ShellRead(t, i + 2, mode, Append(word, next), TRUE, words, expanded)
                    ELSE IF c = "\\" /\ next = "\n"
                    THEN ShellRead(t, i + 2, mode, word, TRUE, words, expanded)
                    ELSE IF c \in {"$", BackQuote}
                    THEN ShellRead(t, i + 1, mode, word, TRUE, words, TRUE)
                    ELSE ShellRead(t, i + 1, mode, Append(word, c), TRUE, words, expanded)
               [] OTHER ->
                    IF c = "'"
                    THEN ShellRead(t, i + 1, "single", word, TRUE, words, expanded)
                    ELSE IF c = "\""
                    THEN ShellRead(t, i + 1, "double", word, TRUE, words, expanded)
                    ELSE IF c = "\\" /\ next = ""
                    THEN ShellRead(t, i + 1, "continued", word, inword, words, expanded)
                    ELSE IF c = "\\" /\ next = "\n"
                    THEN ShellRead(t, i + 2, mode, word, inword, words, expanded)
                    ELSE IF c = "\\"
                    THEN ShellRead(t, i + 2, mode, Append(word, next), TRUE, words, expanded)
                    ELSE IF c \in {" ", "\n"}
                    THEN ShellRead(t, i + 1, mode, <<>>, FALSE,
                                   IF inword THEN Append(words, word) ELSE words, expanded)
                    ELSE IF c \in {"$", BackQuote}
                    THEN ShellRead(t, i + 1, mode, word, TRUE, words, TRUE)
                    ELSE ShellRead(t, i + 1, mode, Append(word, c), TRUE, words, expanded)

\* The word(s) the shell reads from a resolved token; of a redirection, the
\* word(s) after the operator.
ShellWords(class, token) ==
    LET start == CASE class = "RedirStdout" -> 2
                   [] class = "RedirStderr" -> 3
                   [] OTHER -> 1
    IN  ShellRead(token, start, "plain", <<>>, FALSE, <<>>, FALSE)

\* A string is resolved as an argument or as the path of a redirection on
\* its own host, and the shell reads the result.
quote_and_read(class, s) ==
    LET tok == CASE class = "RedirStdout" -> RedirStdout(Path("lh", s))
                 [] class = "RedirStderr" -> RedirStderr(Path("lh", s))
                 [] OTHER -> Arg(s)
        token == _to_string(tok, "lh").string
        read == ShellWords(class, token)
    IN  /\ quoting.class = "none"
        /\ quoting' = [class |-> class, s |-> s, token |-> token, words |-> read.words,
                       expanded |-> read.expanded, complete |-> read.complete]
        /\ UNCHANGED cmd

NextQuote ==
    /\ quoting.class = "none"
    /\ \E class \in {"Arg", "RedirStdout", "RedirStderr"}, s \in Strings(MaxLen) :
          quote_and_read(class, s)
    /\ UNCHANGED <<ctxVars, harnessVars, channelVars, testVars, unwindVars, accessVars>>

SpecQuote == __init__ /\ [][NextQuote]_vars

\* ======================================================= harness properties

\* The number of exception events emitted for error instance e.
ExceptionEventCount(e) ==
    Cardinality({i \in 1..Len(events) : events[i] = exception(e)})

\* The number of end-events emitted.
EndEventCount ==
    Cardinality({i \in 1..Len(events) : events[i][1] = "testcase_end"})

\* C1: whenever a call() frame is left, by return or by any raised error, the
\* call-depth is what it was immediately before the call.
C1_LayerRestored ==
    [][Len(stack') < Len(stack) => layer'[1] = Top.entry_layer]_vars

\* C2: an error that has left one or more call() frames has exactly one
\* exception event, and every frame that was left has emitted its end-event.
C2_OneExceptionEvent ==
    /\ \A e \in 1..nErr : passed[e] >= 1 => ExceptionEventCount(e) = 1
    /\ EndEventCount = nCalls - Len(stack)

\* ======================================================= context properties

\* The instance has been through __exit__ and now uses its parent's mapping.
Decayed(c) == machines[c] # c

\* Neither destruct() nor __exit__ has run on the instance.
Live(c) == c \in 1..nCtx /\ machines[c] = c /\ destruct_machines[c] = c

\* The machines in the destruct-list the instance refers to.
DestructSet(c) == Range(ListOf(destruct_machines[c]))

\* C4: over any sequence of machine(), __exit__ and destruct() calls, a
\* Machine's _destruct is invoked at most once (and so never by two
\* different TBot instances).
C4_DestructAtMostOnce ==
    \A m \in MachIds : destructCount[m] <= 1

\* C5: when _setup returns the machine already present (new is old), nothing
\* is appended to the child's destruct-list, the child's scope exit destructs
\* no machine, and the parent's mapping is as before, so the machine stays
\* usable in the outer scope.
C5_ReentrantAcquisition ==
    /\ [](\A c \in CtxIds : reused[c] => lists[c] = <<>>)
    /\ [][\A c \in CtxIds :
            (__exit__(c) /\ reused[c] /\ ~Decayed(c))
            => /\ destructCount' = destructCount
               /\ managers'[machines'[old_inst[c]]] = ManagerOf(old_inst[c])]_vars

\* Two scopes were entered on the same parent with a reused machine and both
\* have exited; the machine has not been destructed.
C5_Witness ==
    \E c1, c2 \in 2..nCtx :
        /\ c1 # c2 /\ old_inst[c1] = old_inst[c2]
        /\ reused[c1] /\ reused[c2] /\ Decayed(c1) /\ Decayed(c2)
        /\ \E n \in Names :
              /\ managers[c1][n] # None
              /\ managers[c1][n] = managers[c2][n]
              /\ managers[c1][n] = ManagerOf(old_inst[c1])[n]
              /\ destructCount[managers[c1][n]] = 0

\* The parent's mapping and destruct-list are as before the step.
ParentUnchanged(p) ==
    /\ machines'[p] = machines[p]
    /\ managers'[machines[p]] = managers[machines[p]]
    /\ destruct_machines'[p] = destruct_machines[p]
    /\ ListOf(destruct_machines[p])' = ListOf(destruct_machines[p])

\* C6 as stated: machine() and every insertion through a child leave the
\* parent's mapping and destruct-list unchanged, also after the child's scope
\* has exited.
C6_ParentUnchangedAlways ==
    [][/\ \A p \in CtxIds, k \in Kinds, r \in BOOLEAN :
             machine(p, k, r) => ParentUnchanged(p)
       /\ \A c \in CtxIds, m \in MachIds :
             (setitem(c, m) /\ old_inst[c] # None) => ParentUnchanged(old_inst[c])]_vars

\* C6 amended: the same, for insertions through a child whose scope has not
\* exited.
C6_ParentUnchangedUntilExit ==
    [][/\ \A p \in CtxIds, k \in Kinds, r \in BOOLEAN :
             machine(p, k, r) => ParentUnchanged(p)
       /\ \A c \in CtxIds, m \in MachIds :
             (setitem(c, m) /\ old_inst[c] # None /\ ~Decayed(c))
             => ParentUnchanged(old_inst[c])]_vars

\* A child that has not exited set up a machine and no longer has it as the
\* current machine of its role: an entry was overwritten through the child.
C6_Witness ==
    \E c \in 2..nCtx, m \in 1..nMach :
        /\ ~Decayed(c) /\ creator[m] = c
        /\ managers[c][common_machine_name(kindOf[m])] # m
        /\ ManagerOf(old_inst[c])[common_machine_name(kindOf[m])] # m

\* C7: every Machine set up and not yet destructed is in the destruct-list of
\* exactly one TBot instance, the one that created it.
C7_ExactlyOneDestructList ==
    \A m \in 1..nMach :
        destructCount[m] = 0 => {c \in 1..nCtx : m \in DestructSet(c)} = {creator[m]}

\* C8: no instance on which neither destruct() nor __exit__ has run maps a
\* name to a destructed Machine.
C8_NoLiveReferenceToDestructed ==
    \A c \in CtxIds : Live(c) =>
        \A n \in Names :
            ManagerOf(c)[n] # None => destructCount[ManagerOf(c)[n]] = 0

C3_ClosedIsTerminal ==
    /\ [][ch_state = "Closed" =>
            /\ ch_state' = "Closed"
            /\ recv => result' = Failed("recv", "ChannelClosed")
            /\ \A d \in Commands, hangup_seen \in BOOLEAN :
                  send(d, hangup_seen) => result' = Failed("send", "ChannelClosed")
            /\ isopen => ~result'.open]_vars
    /\ [](driver = "test" /\ ~remote_close => pc # "failed")

\* On a channel the peer closed, the testcase has had isopen() answer false
\* and send fail with ChannelClosed.
C3_Witness ==
    /\ driver = "test" /\ remote_close /\ pc = "L169"
    /\ ch_state = "Closed" /\ closed_by = "peer"
    /\ result = Failed("send", "ChannelClosed")

\* C10: on an Open channel whose peer has closed, recv returns the data still
\* pending and leaves the channel Open; with nothing pending it fails with
\* ChannelClosed and the channel becomes Closed.  A channel closed this way
\* stays Closed, isopen() answers false and send and recv fail with
\* ChannelClosed; the assertions selftest_machine_channel makes around a
\* remote close never fail.
C10_PeerClose ==
    /\ [][/\ (ch_state = "Open" /\ peer_closed /\ recv) =>
                IF inbuf # <<>>
                THEN result' = Ok("recv", inbuf) /\ ch_state' = "Open"
                ELSE /\ result' = Failed("recv", "ChannelClosed")
                     /\ ch_state' = "Closed"
                     /\ closed_by' = "peer"
          /\ closed_by = "peer" =>
                /\ ch_state' = "Closed"
                /\ recv => result' = Failed("recv", "ChannelClosed")
                /\ \A d \in Commands, hangup_seen \in BOOLEAN :
                      send(d, hangup_seen) => result' = Failed("send", "ChannelClosed")
                /\ isopen => ~result'.open]_vars
    /\ [](closed_by = "peer" => ch_state = "Closed")
    /\ [](driver = "test" /\ remote_close => pc # "failed")

\* The testcase sent "exit", received what the shell printed before it
\* ended, and its next recv failed with ChannelClosed and closed the channel;
\* the owner never called close().
C10_Witness ==
    /\ driver = "test" /\ remote_close /\ pc = "L158"
    /\ ch_state = "Closed" /\ closed_by = "peer" /\ ~close_called
    /\ peer_closed /\ inbuf = <<>>
    /\ result = Failed("recv", "ChannelClosed")

\* C11: close() on a channel that is already Closed, by an earlier close() or
\* by the peer's close, returns successfully, leaves the channel Closed and
\* leaves the record of who closed it as it was.
C11_CloseIdempotent ==
    [][(ch_state = "Closed" /\ close) =>
          /\ result' = Ok("close", <<>>)
          /\ ch_state' = "Closed"
          /\ closed_by' = closed_by]_vars

\* The owner has called close() on a channel the peer had closed, and the
\* call returned successfully.
C11_Witness ==
    /\ ch_state = "Closed" /\ closed_by = "peer" /\ close_called
    /\ result = Ok("close", <<>>)

\* ======================================================= builder properties

IsRedir(tok) == tok.class \in {"RedirStdout", "RedirStderr"}

\* The redirection tokens of the latest build whose path belongs to a
\* machine other than the one the command was built for.
CrossHost == {i \in 1..Len(cmd.tokens) : IsRedir(cmd.tokens[i])
                                          /\ cmd.tokens[i].file.host # cmd.host}

ScopeEntries(p, k, old, new) ==
    LET child == managers'[machines'[nCtx']]
    IN  /\ child[common_machine_name(k)] = new
        /\ child[unique_machine_name(k)] = new
        /\ (old # None /\ unique_machine_name(kindOf[old]) # unique_machine_name(k))
           => child[unique_machine_name(kindOf[old])] = old
        /\ \A n \in Names \ {common_machine_name(k), unique_machine_name(k)} :
              child[n] = ManagerOf(p)[n]

\* C19 as stated: after machine() the new instance maps the descriptor's
\* common and unique name to the machine _setup returned, the previous machine
\* of the role is no longer found under the common name but is still found
\* under its own unique name when that differs, and every other entry equals
\* the caller's.
C19_ScopeEntriesOldReplaced ==
    [][\A p \in CtxIds, k \in Kinds, r \in BOOLEAN : machine(p, k, r) =>
          LET old == ManagerOf(p)[common_machine_name(k)]
          IN  /\ ScopeEntries(p, k, old, _setup(old, r))
              /\ old # None
                 => managers'[machines'[nCtx']][common_machine_name(k)] # old]_vars

\* C19 amended: the same, the previous machine being no longer found under the
\* common name when _setup returned another machine than the previous one.
C19_ScopeEntries ==
    [][\A p \in CtxIds, k \in Kinds, r \in BOOLEAN : machine(p, k, r) =>
          LET old == ManagerOf(p)[common_machine_name(k)]
              new == _setup(old, r)
          IN  /\ ScopeEntries(p, k, old, new)
              /\ (old # None /\ new # old)
                 => managers'[machines'[nCtx']][common_machine_name(k)] # old]_vars

\* A scope was entered with a Linux board machine where the caller had a
\* U-Boot board machine: the new machine is under "board" and "board-linux",
\* the previous one under "board-uboot" only.
C19_Witness ==
    \E c \in 2..nCtx, old, new \in 1..nMach :
        /\ ~Decayed(c) /\ old # new
        /\ creator[new] = c /\ kindOf[new] = "MachineBoardLinux"
        /\ kindOf[old] = "MachineBoardUBoot"
        /\ ManagerOf(old_inst[c])["board"] = old
        /\ managers[c]["board"] = new
        /\ managers[c]["board-linux"] = new
        /\ managers[c]["board-uboot"] = old
        /\ managers[c]["host"] = ManagerOf(old_inst[c])["host"]

\* ====================================================== teardown properties

\* C13: when the body of a "with" block has raised, the exception that leaves
\* the with statement is the body's, whatever happens in the teardown.
C13_BodyErrorNotMasked ==
    teardown.body_raised => teardown.propagated = "body"

\* The machines named by the _destruct steps of a teardown, in order.
Destructed(steps) ==
    LET ds == SelectSeq(steps, LAMBDA s : s[1] = "_destruct")
    IN  [i \in 1..Len(ds) |-> ds[i][2]]

HasBoard(c) ==
    /\ ManagerOf(c)["board"] # None
    /\ kindOf[ManagerOf(c)["board"]] \in MachineBoard

\* C14: boardshell raises InvalidUsageException when the mapping holds no
\* machine under "board" and when the machine under "board" is not a board
\* machine, returns the machine under "board" otherwise, and never changes
\* the mapping.
C14_BoardshellInvalidUsage ==
    [][\A c \in CtxIds : boardshell(c) =>
          /\ IF HasBoard(c)
             THEN accessor'.raised = "" /\ accessor'.returned = ManagerOf(c)["board"]
             ELSE accessor'.raised = "InvalidUsageException"
          /\ managers' = managers /\ machines' = machines]_vars

\* ==================================================== call order properties

\* The steps of call_steps the order of which is stated: changes of the
\* depth, events, and the passing of control.
Ordered(steps) == SelectSeq(steps, LAMBDA x : x \notin {"set_layer", "LOG_DO_DOC"})

LastEvent == events[Len(events)]

\* C15: entering a call increments the depth, then emits the begin-event,
\* then invokes the target; leaving it on success decrements the depth, then
\* emits the end-event (success) and returns; leaving it on failure emits the
\* exception event if the error is not yet reported, then decrements the
\* depth, then emits the end-event (failure, fail_ok) and raises the same
\* error again.
C15_CallStepOrder ==
    [][/\ Len(stack') > Len(stack) =>
             Ordered(call_steps') \in {<<"layer += 1", "testcase_begin", "testcase">>,
                                       <<"layer += 1", "testcase_begin", "KeyError">>}
       /\ (Len(stack') < Len(stack) /\ raising = None) =>
             /\ Ordered(call_steps') = <<"layer -= 1", "testcase_end", "return">>
             /\ LastEvent' = testcase_end(Top.name, TRUE, None)
       /\ (Len(stack') < Len(stack) /\ raising # None) =>
             /\ Ordered(call_steps') =
                   (IF ~catched[raising] THEN <<"exception">> ELSE <<>>)
                   \o <<"layer -= 1", "testcase_end", "raise">>
             /\ LastEvent' = testcase_end(Top.name, FALSE, Top.fail_ok)
             /\ raising' = raising]_vars

\* ================================================= event nesting properties

\* The begin-events of a sequence of events that have no end-event yet, read
\* as brackets: an end-event closes the innermost open begin-event and, when
\* it carries a name, has to carry that begin-event's name.  <<"ill-formed">>
\* stands for a sequence with an end-event that closes nothing or closes a
\* begin-event of another name.
RECURSIVE OpenBegins(_, _, _)
OpenBegins(evs, i, open) ==
    IF i > Len(evs) THEN open
    ELSE IF evs[i][1] = "testcase_begin"
         THEN OpenBegins(evs, i + 1, Append(open, evs[i][2]))
    ELSE IF evs[i][1] = "testcase_end"
         THEN IF open # <<>> /\ evs[i][2] \in {"", open[Len(open)]}
              THEN OpenBegins(evs, i + 1, SubSeq(open, 1, Len(open) - 1))
              ELSE <<"ill-formed">>
    ELSE OpenBegins(evs, i + 1, open)

\* C20: begin- and end-events are balanced and nested: the begin-events
\* without end-event are those of the invocations in progress, outermost
\* first, and an invocation that is left, by return or by any error, has just
\* emitted its end-event, which reports failure exactly when the invocation
\* raised.
C20_EventsBalancedNested ==
    /\ [](OpenBegins(events, 1, <<>>) = [i \in 1..Len(stack) |-> stack[i].name])
    /\ [][Len(stack') < Len(stack) =>
             /\ Len(events') > Len(events)
             /\ LastEvent'[1] = "testcase_end"
             /\ LastEvent'[2] \in {"", Top.name}
             /\ LastEvent'[3] = (raising = None)]_vars

RECURSIVE Offset(_, _)
\* Where the i-th substring starts in the joined string, less one.
Offset(strs, i) == IF i = 1 THEN 0 ELSE Offset(strs, i - 1) + Len(strs[i - 1]) + 1

\* C16: in every command that was built, for either host, a Raw token has
\* resolved to its string as it is and AndThen, OrElse, Pipe, Then, Background
\* to "&&", "||", "|", ";", "&"; the command holds the resolved substrings at
\* consecutive positions in the order of the tokens, one space between
\* neighbours and nothing else.
C16_BuilderLiteralOrder ==
    cmd.status = "built" =>
        LET n == Len(cmd.tokens)
        IN  /\ Len(cmd.resolved) = n
            /\ \A i \in 1..n :
                  /\ cmd.tokens[i].class = "Raw" => cmd.resolved[i] = cmd.tokens[i].string
                  /\ cmd.tokens[i] = AndThen => cmd.resolved[i] = <<"&", "&">>
                  /\ cmd.tokens[i] = OrElse => cmd.resolved[i] = <<"|", "|">>
                  /\ cmd.tokens[i] = Pipe => cmd.resolved[i] = <<"|">>
                  /\ cmd.tokens[i] = Then => cmd.resolved[i] = <<";">>
                  /\ cmd.tokens[i] = Background => cmd.resolved[i] = <<"&">>
                  /\ SubSeq(cmd.string, Offset(cmd.resolved, i) + 1,
                            Offset(cmd.resolved, i) + Len(cmd.resolved[i])) = cmd.resolved[i]
                  /\ i < n => cmd.string[Offset(cmd.resolved, i) + Len(cmd.resolved[i]) + 1] = " "
            /\ Len(cmd.string) = IF n = 0 THEN 0
                                 ELSE Offset(cmd.resolved, n) + Len(cmd.resolved[n])

\* A command was built for the host "ssh" from a Raw token holding a quote
\* and a space, followed by the same control token twice.
C16_Witness ==
    /\ cmd.status = "built" /\ cmd.host = "ssh"
    /\ Len(cmd.tokens) = 3
    /\ cmd.tokens[1] = Raw(<<"'", " ">>)
    /\ cmd.tokens[2] = OrElse /\ cmd.tokens[3] = OrElse
    /\ cmd.string = <<"'", " ", " ", "|", "|", " ", "|", "|">>

\* C17: a string, shell-quoted as an argument or as the path of a
\* redirection, is read by the shell as exactly one word, equal to the
\* string, with no expansion and no quote left open.
C17_QuoteRoundTrip ==
    quoting.class # "none" =>
        /\ quoting.words = <<quoting.s>>
        /\ ~quoting.expanded
        /\ quoting.complete

\* The path of a redirection holding a single quote, a "$" and a newline was
\* quoted and read.
C17_Witness ==
    /\ quoting.class = "RedirStdout"
    /\ quoting.s = <<"'", "$", "\n">>
    /\ quoting.token = <<">", "'", "'", "\"", "'", "\"", "'", "$", "\n", "'">>

====
